---- MODULE Spec2Model ----
(***************************************************************************)
(* SwagUpApiClient (src/api.py): a client object holding a base URL and an *)
(* API key, whose ten methods each build one HTTP request, hand it to the  *)
(* requests transport, and pass the response through _handle_response.     *)
(*                                                                         *)
(* The transport is the environment: it records every request it is handed *)
(* (responses.calls in src/test_api.py) and answers with an arbitrary       *)
(* status code and body.                                                   *)
(***************************************************************************)
EXTENDS Integers, Sequences, FiniteSets, TLC

VARIABLES
    base_url,   \* self.base_url
    api_key,    \* self.api_key
    calls,      \* requests handed to the transport, in order (responses.calls)
    ncalls,     \* number of method calls the caller has made
    pc,         \* "idle", or "waiting" while a call blocks on the transport
    last,       \* the most recent method call: method, arguments, call style
    answer,     \* the transport's response to that call's request
    ret,        \* what that call gave its caller: a returned value or a raised exception
    created,    \* design ids that create_design calls have returned to the caller
    th          \* concurrent callers of the one client: each one's call frame

vars == <<base_url, api_key, calls, ncalls, pc, last, answer, ret, created, th>>

\* Number of method calls explored on one client.
MaxCalls == 2

-----------------------------------------------------------------------------
(* Inputs *)

\* Constructor arguments (test_api.py setUp, plus a second deployment).
Configs ==
    { [base_url |-> "https://api.example.com", api_key |-> "your_api_key"],
      [base_url |-> "http://localhost:8000/v1", api_key |-> "k2"] }

\* Callers that use one client at the same time.
Threads == {"t1", "t2"}

DesignIds == {"123", "999"}
OrderIds == {"order123", "order999"}

Methods ==
    { "create_design", "upload_image", "get_design_details", "choose_logo_color",
      "select_size_and_quantity", "set_shipping_destination",
      "manage_payment_methods", "place_order", "track_order", "cancel_order" }

\* The parameters of each method after self, in declaration order.
Params(op) ==
    CASE op = "create_design" ->
            <<"designer_id", "design_name", "design_description",
              "categories", "tags", "price">>
      [] op = "upload_image" -> <<"image">>
      [] op = "get_design_details" -> <<"design_id">>
      [] op = "choose_logo_color" -> <<"color", "design_id">>
      [] op = "select_size_and_quantity" -> <<"design_id", "items">>
      [] op = "set_shipping_destination" -> <<"design_id", "address">>
      [] op = "manage_payment_methods" -> <<"payment_method">>
      [] op = "place_order" -> <<"design_id", "payment_method_id">>
      [] op = "track_order" -> <<"order_id">>
      [] op = "cancel_order" -> <<"order_id">>

Color == [name |-> "Red", hex |-> "#FF0000", rgb |-> <<255, 0, 0>>]
Items == << [size |-> "S", quantity |-> 50], [size |-> "M", quantity |-> 100] >>
Address ==
    [recipientName |-> "John Doe", street |-> "123 Swag Street", city |-> "Swag City",
     state |-> "Swag State", country |-> "Swag Country", zip |-> "12345"]
PaymentMethod ==
    [type |-> "credit card", cardNumber |-> "1234567812345678",
     expiryDate |-> "07/25", cvv |-> "123"]

\* Argument values a caller passes, as a record keyed by parameter name.
Args(op) ==
    CASE op = "create_design" ->
            { [designer_id |-> "designer123", design_name |-> "Cool Cat",
               design_description |-> "Cat wearing sunglasses",
               categories |-> <<"Animals", "Humor">>,
               tags |-> <<"cat", "cool", "sunglasses">>, price |-> "19.99"] }
      [] op = "upload_image" -> { [image |-> "/path/to/image.png"] }
      [] op = "get_design_details" -> { [design_id |-> d] : d \in DesignIds }
      [] op = "choose_logo_color" ->
            { [color |-> Color, design_id |-> d] : d \in DesignIds }
      [] op = "select_size_and_quantity" ->
            { [design_id |-> d, items |-> Items] : d \in DesignIds }
      [] op = "set_shipping_destination" ->
            { [design_id |-> d, address |-> Address] : d \in DesignIds }
      [] op = "manage_payment_methods" -> { [payment_method |-> PaymentMethod] }
      [] op = "place_order" ->
            { [design_id |-> d, payment_method_id |-> "payment123"] : d \in DesignIds }
      [] op = "track_order" -> { [order_id |-> o] : o \in OrderIds }
      [] op = "cancel_order" -> { [order_id |-> o] : o \in OrderIds }

\* A call passes its arguments positionally (a tuple in declaration order) or
\* by name (a mapping from parameter name to value, which has no order).
Styles == {"positional", "keyword"}

Supplied(op, style, a) ==
    IF style = "positional"
    THEN [i \in 1..Len(Params(op)) |-> a[Params(op)[i]]]
    ELSE a

\* Python's binding of supplied arguments to the method's parameters.
BindArgs(op, style, supplied) ==
    IF style = "positional"
    THEN [p \in {Params(op)[i] : i \in 1..Len(Params(op))} |->
            supplied[CHOOSE i \in 1..Len(Params(op)) : Params(op)[i] = p]]
    ELSE supplied

-----------------------------------------------------------------------------
(* The transport's answers *)

\* Status codes the transport may answer with: informational, success,
\* redirection, the three classified client errors, another client error,
\* a server error.
Statuses == {100, 200, 201, 302, 400, 401, 403, 404, 500}

\* The `data` objects of the vendor's responses, per method (the response_data
\* of each test), with the values the server chooses.
Data(op) ==
    CASE op = "create_design" ->
            { [designId |-> d, designerId |-> "designer123", designName |-> "Cool Cat",
               designDescription |-> "Cat wearing sunglasses",
               categories |-> <<"Animals", "Humor">>,
               tags |-> <<"cat", "cool", "sunglasses">>, price |-> "19.99",
               timestamp |-> "2023-07-10T15:00:00Z"] : d \in DesignIds }
      [] op = "upload_image" ->
            { [imageId |-> "456", imageUrl |-> "https://your-api.com/images/456",
               uploadTimestamp |-> "2023-07-10T15:05:00Z", imageSize |-> "1.5MB",
               imageFormat |-> "png"] }
      [] op = "get_design_details" ->
            { [designId |-> "123", designerId |-> "designer123", designName |-> "Cool Cat",
               designDescription |-> "Cat wearing sunglasses",
               categories |-> <<"Animals", "Humor">>,
               tags |-> <<"cat", "cool", "sunglasses">>, price |-> "19.99",
               creationTimestamp |-> "2023-07-10T15:00:00Z", imageId |-> "456",
               imageUrl |-> "https://your-api.com/images/456",
               imageUploadTimestamp |-> "2023-07-10T15:05:00Z",
               imageSize |-> "1.5MB", imageFormat |-> "png"] }
      [] op = "choose_logo_color" -> { [designId |-> "123", logoColor |-> Color] }
      [] op = "select_size_and_quantity" -> { [designId |-> "123", items |-> Items] }
      [] op = "set_shipping_destination" -> { [designId |-> "123", address |-> Address] }
      [] op = "manage_payment_methods" ->
            { [paymentMethodId |-> "payment123", type |-> "credit card",
               expiryDate |-> "07/25"] }
      [] op = "place_order" ->
            { [orderId |-> "order123", designId |-> "123",
               paymentMethodId |-> "payment123", status |-> "Processing",
               timestamp |-> "2023-07-10T16:00:00Z"] }
      [] op = "track_order" ->
            { [orderId |-> "order123", designId |-> "123", status |-> st,
               timestamp |-> "2023-07-10T16:00:00Z", shippingAddress |-> Address,
               estimatedDelivery |-> "2023-07-17T16:00:00Z"]
              : st \in {"Shipped", "Cancelled"} }
      [] op = "cancel_order" -> { [orderId |-> "order123", status |-> "Cancelled"] }

\* The external-to-internal field names of each method's result type: the
\* fields of the response dataclasses and the `data` keys the tests compare
\* them with.
FieldMap(op) ==
    CASE op = "create_design" ->
            { <<"designId", "design_id">>, <<"designerId", "designer_id">>,
              <<"designName", "design_name">>,
              <<"designDescription", "design_description">>,
              <<"categories", "categories">>, <<"tags", "tags">>, <<"price", "price">> }
      [] op = "upload_image" ->
            { <<"imageId", "image_id">>, <<"imageUrl", "image_url">> }
      [] op = "get_design_details" ->
            { <<"designId", "design_id">>, <<"designerId", "designer_id">>,
              <<"designName", "design_name">>,
              <<"designDescription", "design_description">>,
              <<"categories", "categories">>, <<"tags", "tags">>, <<"price", "price">>,
              <<"imageId", "image_id">>, <<"imageUrl", "image_url">>,
              <<"imageUploadTimestamp", "image_upload_timestamp">>,
              <<"imageSize", "image_size">>, <<"imageFormat", "image_format">> }
      [] op = "choose_logo_color" ->
            { <<"designId", "design_id">>, <<"logoColor", "color">> }
      [] op = "select_size_and_quantity" ->
            { <<"designId", "design_id">>, <<"items", "items">> }
      [] op = "set_shipping_destination" ->
            { <<"designId", "design_id">>, <<"address", "address">> }
      [] op = "manage_payment_methods" -> { <<"paymentMethodId", "payment_method_id">> }
      [] op = "place_order" -> { <<"orderId", "order_id">> }
      [] op = "track_order" -> { <<"orderId", "order_id">> }
      [] op = "cancel_order" -> { <<"orderId", "order_id">> }

\* The `data` key that carries the identifier of each method's result.
IdKey(op) ==
    CASE op \in {"create_design", "get_design_details", "choose_logo_color",
                 "select_size_and_quantity", "set_shipping_destination"} -> "designId"
      [] op = "upload_image" -> "imageId"
      [] op = "manage_payment_methods" -> "paymentMethodId"
      [] op \in {"place_order", "track_order", "cancel_order"} -> "orderId"

\* The envelope {status, message, data} every response of the vendor uses.
Envelope(d) == [status |-> "success", message |-> "OK", data |-> d]

Without(d, key) == [k \in DOMAIN d \ {key} |-> d[k]]

\* Response bodies. A body with `doc` is the JSON text of that document; a
\* body without it is text that is not JSON.
WellFormedBodies(op) == { [doc |-> Envelope(d)] : d \in Data(op) }

MissingFieldBodies(op) ==
    { [doc |-> Envelope(Without(d, IdKey(op)))] : d \in Data(op) }

NoDataBody == [doc |-> [status |-> "success", message |-> "OK"]]

NotJsonBody == [raw |-> "<html>Bad Gateway</html>"]

Bodies(op) ==
    WellFormedBodies(op) \cup MissingFieldBodies(op) \cup {NoDataBody, NotJsonBody}

Responses(op) == { [status_code |-> s, body |-> b] : s \in Statuses, b \in Bodies(op) }

-----------------------------------------------------------------------------
(* The requests library, as far as the client uses it *)

\* requests.post(url, headers=..., json=...)
requests_post_json(url, headers, payload) ==
    [method |-> "POST", url |-> url, headers |-> headers, json |-> payload]

\* requests.post(url, headers=..., files=...)
requests_post_files(url, headers, files) ==
    [method |-> "POST", url |-> url, headers |-> headers, files |-> files]

\* requests.get(url, headers=...)
requests_get(url, headers) == [method |-> "GET", url |-> url, headers |-> headers]

\* requests.delete(url, headers=...)
requests_delete(url, headers) == [method |-> "DELETE", url |-> url, headers |-> headers]

\* The Content-Type the requests library gives a request: multipart form
\* encoding for files=, JSON for json=, none for a request without a body.
content_type(request) ==
    IF "files" \in DOMAIN request THEN "multipart/form-data"
    ELSE IF "json" \in DOMAIN request THEN "application/json"
    ELSE ""

\* response.raise_for_status(): TRUE when it raises requests.HTTPError, which it
\* does for the 4xx and 5xx status codes only.
raise_for_status(response) ==
    response.status_code >= 400 /\ response.status_code < 600

\* response.json(): the parsed document, or a JSONDecodeError when the body is
\* not JSON.
response_json(response) ==
    IF "doc" \in DOMAIN response.body
    THEN [kind |-> "return", value |-> response.body.doc]
    ELSE [kind |-> "raise", exc |-> "JSONDecodeError",
          msg |-> "Expecting value: line 1 column 1 (char 0)"]

ValueError(msg) == [kind |-> "raise", exc |-> "ValueError", msg |-> msg]

-----------------------------------------------------------------------------
(* SwagUpApiClient *)

\* _handle_response with the 401 branch raising the 400 branch's message.
handle_response_401_as_400(response) ==
    IF raise_for_status(response)
    THEN IF response.status_code = 400 \/ response.status_code = 401
         THEN ValueError("Bad request. Please check your input.")
         ELSE IF response.status_code = 404
         THEN ValueError("Resource not found.")
         ELSE ValueError("Request failed with status code: "
                            \o ToString(response.status_code))
    ELSE response_json(response)

\* _handle_response with the generic branch leaving the status code out.
handle_response_no_code(response) ==
    IF raise_for_status(response)
    THEN IF response.status_code = 400
         THEN ValueError("Bad request. Please check your input.")
         ELSE IF response.status_code = 401
         THEN ValueError("Unauthorized. Please check your API key.")
         ELSE IF response.status_code = 404
         THEN ValueError("Resource not found.")
         ELSE ValueError("Request failed with status code: ")
    ELSE response_json(response)

\* _handle_response: what the method gives its caller for this response.
handle_response(response) ==
    IF raise_for_status(response)
    THEN IF response.status_code = 400
         THEN ValueError("Bad request. Please check your input.")
         ELSE IF response.status_code = 401
         THEN ValueError("Unauthorized. Please check your API key.")
         ELSE IF response.status_code = 404
         THEN ValueError("Resource not found.")
         ELSE ValueError("Request failed with status code: "
                            \o ToString(response.status_code))
    ELSE response_json(response)

\* The header with a key written into the code instead of self.api_key.
Headers_hardcoded == "X-SwagUp-API-Key" :> "your_api_key"

\* headers = {"X-SwagUp-API-Key": self.api_key}
Headers == "X-SwagUp-API-Key" :> api_key

\* choose_logo_color with the parameter names used as the body's keys.
choose_logo_color_snake_keys(a) ==
    LET url == base_url \o "/logo-color"
        payload == [color |-> a.color, design_id |-> a.design_id]
    IN requests_post_json(url, Headers, payload)

\* cancel_order with track_order's requests.get line.
cancel_order_as_get(a) ==
    LET url == base_url \o "/orders/" \o a.order_id
    IN requests_get(url, Headers)

\* Each method, given its bound arguments: the request it hands to the
\* transport (everything up to its requests.post/get/delete line).
create_design(a) ==
    LET url == base_url \o "/designs"
        payload == [designerId |-> a.designer_id,
                    designName |-> a.design_name,
                    designDescription |-> a.design_description,
                    categories |-> a.categories,
                    tags |-> a.tags,
                    price |-> a.price]
    IN requests_post_json(url, Headers, payload)

\* upload_image passing the path with json= like the other POST methods.
upload_image_as_json(a) ==
    LET url == base_url \o "/images"
        files == [image |-> a.image]
    IN requests_post_json(url, Headers, files)

upload_image(a) ==
    LET url == base_url \o "/images"
        files == [image |-> a.image]
    IN requests_post_files(url, Headers, files)

get_design_details(a) ==
    LET url == base_url \o "/designs/" \o a.design_id
    IN requests_get(url, Headers)

choose_logo_color(a) ==
    LET url == base_url \o "/logo-color"
        payload == [color |-> a.color, designId |-> a.design_id]
    IN requests_post_json(url, Headers, payload)

select_size_and_quantity(a) ==
    LET url == base_url \o "/orders/sizes-quantity"
        payload == [designId |-> a.design_id, items |-> a.items]
    IN requests_post_json(url, Headers, payload)

set_shipping_destination(a) ==
    LET url == base_url \o "/orders/shipping"
        payload == [designId |-> a.design_id, address |-> a.address]
    IN requests_post_json(url, Headers, payload)

manage_payment_methods(a) ==
    LET url == base_url \o "/payment-methods"
        payload == [paymentMethod |-> a.payment_method]
    IN requests_post_json(url, Headers, payload)

place_order(a) ==
    LET url == base_url \o "/orders"
        payload == [designId |-> a.design_id, paymentMethodId |-> a.payment_method_id]
    IN requests_post_json(url, Headers, payload)

track_order(a) ==
    LET url == base_url \o "/orders/" \o a.order_id
    IN requests_get(url, Headers)

cancel_order(a) ==
    LET url == base_url \o "/orders/" \o a.order_id
    IN requests_delete(url, Headers)

-----------------------------------------------------------------------------
(* The state machine: one caller making method calls on one client.  A call *)
(* blocks at its one transport round trip; nothing else runs meanwhile.     *)

NoCall == [op |-> "none"]
NoResponse == [status_code |-> 0]

\* SwagUpApiClient(base_url, api_key), before any call.
Init ==
    /\ \E c \in Configs : base_url = c.base_url /\ api_key = c.api_key
    /\ calls = << >>
    /\ ncalls = 0
    /\ pc = "idle"
    /\ last = NoCall
    /\ answer = NoResponse
    /\ ret = [kind |-> "none"]
    /\ created = {}
    /\ th = [t \in Threads |-> [pc |-> "idle"]]

\* A method that sends its request a second time.
Send_retry(request) == Append(Append(calls, request), request)

\* A method that answers a GET it has sent before from memory.
Send_cached_get(request) ==
    IF request.method = "GET" /\ \E i \in DOMAIN calls : calls[i] = request
    THEN calls
    ELSE Append(calls, request)

\* A method that sends nothing for a design id create_design never returned.
Send_known_designs(request) ==
    IF /\ "json" \in DOMAIN request
       /\ "designId" \in DOMAIN request.json
       /\ request.json.designId \notin created
    THEN calls
    ELSE Append(calls, request)

\* The transport is handed a request and records it.
Send(request) == Append(calls, request)

\* A method that keeps the URL it built in self.base_url.
Invoke_overwrites_base_url(op, a, style, request) ==
    /\ pc = "idle"
    /\ ncalls < MaxCalls
    /\ calls' = Send(request)
    /\ ncalls' = ncalls + 1
    /\ pc' = "waiting"
    /\ last' = [op |-> op, args |-> a, style |-> style]
    /\ answer' = NoResponse
    /\ ret' = [kind |-> "pending"]
    /\ base_url' = request.url
    /\ UNCHANGED <<api_key, created, th>>

\* The first half of a method call: the caller supplies arguments a in some
\* style, the method builds its request and hands it to the transport.
Invoke(op, a, style, request) ==
    /\ pc = "idle"
    /\ ncalls < MaxCalls
    /\ calls' = Send(request)
    /\ ncalls' = ncalls + 1
    /\ pc' = "waiting"
    /\ last' = [op |-> op, args |-> a, style |-> style]
    /\ answer' = NoResponse
    /\ ret' = [kind |-> "pending"]
    /\ UNCHANGED <<base_url, api_key, created, th>>

Bound(op, style, a) == BindArgs(op, style, Supplied(op, style, a))

CallCreateDesign ==
    \E a \in Args("create_design"), style \in Styles :
        Invoke("create_design", a, style,
               create_design(Bound("create_design", style, a)))

CallUploadImage ==
    \E a \in Args("upload_image"), style \in Styles :
        Invoke("upload_image", a, style,
               upload_image(Bound("upload_image", style, a)))

CallGetDesignDetails ==
    \E a \in Args("get_design_details"), style \in Styles :
        Invoke("get_design_details", a, style,
               get_design_details(Bound("get_design_details", style, a)))

CallChooseLogoColor ==
    \E a \in Args("choose_logo_color"), style \in Styles :
        Invoke("choose_logo_color", a, style,
               choose_logo_color(Bound("choose_logo_color", style, a)))

CallSelectSizeAndQuantity ==
    \E a \in Args("select_size_and_quantity"), style \in Styles :
        Invoke("select_size_and_quantity", a, style,
               select_size_and_quantity(Bound("select_size_and_quantity", style, a)))

CallSetShippingDestination ==
    \E a \in Args("set_shipping_destination"), style \in Styles :
        Invoke("set_shipping_destination", a, style,
               set_shipping_destination(Bound("set_shipping_destination", style, a)))

CallManagePaymentMethods ==
    \E a \in Args("manage_payment_methods"), style \in Styles :
        Invoke("manage_payment_methods", a, style,
               manage_payment_methods(Bound("manage_payment_methods", style, a)))

CallPlaceOrder ==
    \E a \in Args("place_order"), style \in Styles :
        Invoke("place_order", a, style,
               place_order(Bound("place_order", style, a)))

CallTrackOrder ==
    \E a \in Args("track_order"), style \in Styles :
        Invoke("track_order", a, style,
               track_order(Bound("track_order", style, a)))

CallCancelOrder ==
    \E a \in Args("cancel_order"), style \in Styles :
        Invoke("cancel_order", a, style,
               cancel_order(Bound("cancel_order", style, a)))

\* The design id a create_design call gave its caller, if any.
ReturnedDesignIds(op, outcome) ==
    IF /\ op = "create_design"
       /\ outcome.kind = "return"
       /\ "data" \in DOMAIN outcome.value
       /\ "designId" \in DOMAIN outcome.value.data
    THEN {outcome.value.data.designId}
    ELSE {}

\* The second half of every method call: the transport answers and the method
\* ends with `return self._handle_response(response)`.
Return ==
    /\ pc = "waiting"
    /\ \E r \in Responses(last.op) :
        /\ answer' = r
        /\ ret' = handle_response(r)
        /\ created' = created \cup ReturnedDesignIds(last.op, handle_response(r))
    /\ pc' = "idle"
    /\ UNCHANGED <<base_url, api_key, calls, ncalls, last, th>>

Next ==
    \/ CallCreateDesign
    \/ CallUploadImage
    \/ CallGetDesignDetails
    \/ CallChooseLogoColor
    \/ CallSelectSizeAndQuantity
    \/ CallSetShippingDestination
    \/ CallManagePaymentMethods
    \/ CallPlaceOrder
    \/ CallTrackOrder
    \/ CallCancelOrder
    \/ Return

Spec == Init /\ [][Next]_vars

-----------------------------------------------------------------------------
(* Concurrent callers: each thread makes one call on the shared client.  A  *)
(* call's url, headers, payload and response are locals of its own frame;    *)
(* the client's fields and the transport are what the threads share.        *)

\* The request a method hands to the transport, by method name.
MethodRequest(op, a) ==
    CASE op = "create_design" -> create_design(a)
      [] op = "upload_image" -> upload_image(a)
      [] op = "get_design_details" -> get_design_details(a)
      [] op = "choose_logo_color" -> choose_logo_color(a)
      [] op = "select_size_and_quantity" -> select_size_and_quantity(a)
      [] op = "set_shipping_destination" -> set_shipping_destination(a)
      [] op = "manage_payment_methods" -> manage_payment_methods(a)
      [] op = "place_order" -> place_order(a)
      [] op = "track_order" -> track_order(a)
      [] op = "cancel_order" -> cancel_order(a)

\* The transport's answers to concurrent calls: a success, a classified and a
\* generic failure, with and without a JSON body.
ConcResponses(op) ==
    { [status_code |-> s, body |-> b] :
        s \in {200, 401, 500}, b \in WellFormedBodies(op) \cup {NotJsonBody} }

\* The response kept in a field of the client, where the response of any
\* call that has received one may be found.
shared_response(t) ==
    th[CHOOSE u \in Threads : th[u].pc \in {"received", "done"}].answer

\* `response = requests.post(...)`: the response is a local of the call.
local_response(t) == th[t].answer

\* Thread t calls a method: the request is built and handed to the transport.
ConcCall(t) ==
    /\ th[t].pc = "idle"
    /\ \E op \in Methods : \E a \in Args(op) :
        /\ th' = [th EXCEPT ![t] = [pc |-> "waiting", op |-> op, args |-> a,
                                     request |-> MethodRequest(op, a)]]
        /\ calls' = Send(MethodRequest(op, a))
    /\ UNCHANGED <<base_url, api_key, ncalls, pc, last, answer, ret, created>>

\* The transport answers thread t's request.
ConcReceive(t) ==
    /\ th[t].pc = "waiting"
    /\ \E r \in ConcResponses(th[t].op) :
        th' = [th EXCEPT ![t] = [pc |-> "received", op |-> th[t].op,
                                  args |-> th[t].args, request |-> th[t].request,
                                  answer |-> r]]
    /\ UNCHANGED <<base_url, api_key, calls, ncalls, pc, last, answer, ret, created>>

\* Thread t's call ends with `return self._handle_response(response)`.
ConcReturn(t) ==
    /\ th[t].pc = "received"
    /\ th' = [th EXCEPT ![t] = [pc |-> "done", op |-> th[t].op,
                                 args |-> th[t].args, request |-> th[t].request,
                                 answer |-> th[t].answer,
                                 ret |-> handle_response(local_response(t))]]
    /\ UNCHANGED <<base_url, api_key, calls, ncalls, pc, last, answer, ret, created>>

ConcNext == \E t \in Threads : ConcCall(t) \/ ConcReceive(t) \/ ConcReturn(t)

ConcSpec == Init /\ [][ConcNext]_vars

\* A call has run to its end and nothing is in flight.
Done == pc = "idle" /\ last.op # "none"

TypeOK ==
    /\ ncalls \in 0..MaxCalls
    /\ pc \in {"idle", "waiting"}
    /\ ret.kind \in {"none", "pending", "return", "raise"}
    /\ created \subseteq DesignIds

-----------------------------------------------------------------------------
(* Vocabulary of the claims *)

\* The failure classes of the specification, as the client signals them.
InvalidRequest == ValueError("Bad request. Please check your input.")
Unauthorized == ValueError("Unauthorized. Please check your API key.")
NotFound == ValueError("Resource not found.")
RequestFailed(code) == ValueError("Request failed with status code: " \o ToString(code))

Is2xx(code) == code >= 200 /\ code < 300

\* The request the last call handed to the transport.
LastRequest == calls[Len(calls)]

\* The verb and path of each operation in the operation table.
OperationTable(op, a) ==
    CASE op = "create_design" -> [verb |-> "POST", path |-> "/designs"]
      [] op = "upload_image" -> [verb |-> "POST", path |-> "/images"]
      [] op = "get_design_details" ->
            [verb |-> "GET", path |-> "/designs/" \o a.design_id]
      [] op = "choose_logo_color" -> [verb |-> "POST", path |-> "/logo-color"]
      [] op = "select_size_and_quantity" ->
            [verb |-> "POST", path |-> "/orders/sizes-quantity"]
      [] op = "set_shipping_destination" ->
            [verb |-> "POST", path |-> "/orders/shipping"]
      [] op = "manage_payment_methods" -> [verb |-> "POST", path |-> "/payment-methods"]
      [] op = "place_order" -> [verb |-> "POST", path |-> "/orders"]
      [] op = "track_order" -> [verb |-> "GET", path |-> "/orders/" \o a.order_id]
      [] op = "cancel_order" -> [verb |-> "DELETE", path |-> "/orders/" \o a.order_id]

JsonPostMethods ==
    { "create_design", "choose_logo_color", "select_size_and_quantity",
      "set_shipping_destination", "manage_payment_methods", "place_order" }

\* The declared JSON body of each POST operation, for the caller's arguments a.
DeclaredBody(op, a) ==
    CASE op = "create_design" ->
            [designerId |-> a.designer_id, designName |-> a.design_name,
             designDescription |-> a.design_description,
             categories |-> a.categories, tags |-> a.tags, price |-> a.price]
      [] op = "choose_logo_color" -> [color |-> a.color, designId |-> a.design_id]
      [] op = "select_size_and_quantity" ->
            [designId |-> a.design_id, items |-> a.items]
      [] op = "set_shipping_destination" ->
            [designId |-> a.design_id, address |-> a.address]
      [] op = "manage_payment_methods" -> [paymentMethod |-> a.payment_method]
      [] op = "place_order" ->
            [designId |-> a.design_id, paymentMethodId |-> a.payment_method_id]

\* The methods that take the identifier of an existing design.
DesignMutations ==
    { "choose_logo_color", "select_size_and_quantity",
      "set_shipping_destination", "place_order" }

-----------------------------------------------------------------------------
(* Claims *)

\* C1: when the transport answers 400, 401 or 404, every method ends in the
\* failure classified for that status (400 invalid request, 401 unauthorized,
\* 404 not found), whatever the response body is; the three failures differ
\* from one another, and nothing is returned to the caller.
C1_ClassifiedFailure ==
    Done /\ answer.status_code \in {400, 401, 404} =>
        /\ ret.kind = "raise"
        /\ answer.status_code = 400 => ret = InvalidRequest
        /\ answer.status_code = 401 => ret = Unauthorized
        /\ answer.status_code = 404 => ret = NotFound
        /\ Cardinality({InvalidRequest, Unauthorized, NotFound}) = 3

\* A 401 answered with a well-formed success envelope is still unauthorized.
C1_Witness ==
    /\ Done
    /\ last.op = "track_order"
    /\ answer.status_code = 401
    /\ answer.body \in WellFormedBodies("track_order")
    /\ ret = Unauthorized

C3_TypedResult ==
    Done /\ Is2xx(answer.status_code) /\ answer.body \in WellFormedBodies(last.op) =>
        /\ ret.kind = "return"
        /\ \A f \in FieldMap(last.op) :
              /\ f[2] \in DOMAIN ret.value
              /\ ret.value[f[2]] = answer.body.doc.data[f[1]]
        /\ "message" \notin DOMAIN ret.value
        /\ "data" \notin DOMAIN ret.value

\* C4: the request of every call uses the verb and the path of the operation
\* table, and its URL is the configured base address followed by that path
\* with the identifier argument substituted as it was passed.
C4_VerbAndPath ==
    last.op # "none" =>
        /\ LastRequest.method = OperationTable(last.op, last.args).verb
        /\ LastRequest.url = base_url \o OperationTable(last.op, last.args).path

C4_Witness ==
    /\ last.op = "cancel_order"
    /\ last.args.order_id = "order999"
    /\ LastRequest.method = "DELETE"
    /\ LastRequest.url = "http://localhost:8000/v1/orders/order999"

\* C5: the JSON body of every POST operation has exactly the declared
\* camelCase keys, each bound to the argument passed for it, whether the
\* arguments were passed positionally or by name.
C5_JsonBody ==
    last.op \in JsonPostMethods =>
        /\ "json" \in DOMAIN LastRequest
        /\ LastRequest.json = DeclaredBody(last.op, last.args)

C5_Witness ==
    /\ last.op = "choose_logo_color"
    /\ last.style = "positional"
    /\ LastRequest.json = [color |-> Color, designId |-> "999"]

\* C6: every call hands exactly one request to the transport: after n calls,
\* whatever their outcomes, the transport has received exactly n requests.
C6_OneRequestPerCall == Len(calls) = ncalls

\* Two calls, the first of which failed, and two requests.
C6_Witness ==
    /\ Done
    /\ ncalls = 2
    /\ Len(calls) = 2
    /\ ret.kind = "raise"
    /\ created = {}
    /\ answer.status_code = 500

\* C7: every request handed to the transport carries the header
\* X-SwagUp-API-Key with the API key the client was constructed with.
C7_AuthHeader ==
    \A i \in DOMAIN calls :
        /\ "X-SwagUp-API-Key" \in DOMAIN calls[i].headers
        /\ \E c \in Configs :
              /\ c.base_url = base_url
              /\ calls[i].headers["X-SwagUp-API-Key"] = c.api_key

C7_Witness ==
    /\ Len(calls) = 2
    /\ calls[1].method = "DELETE"
    /\ calls[2].method = "GET"
    /\ calls[1].headers["X-SwagUp-API-Key"] = "k2"
    /\ calls[2].headers["X-SwagUp-API-Key"] = "k2"

\* C8: a 2xx answer whose body is not JSON, or whose `data` object is missing
\* or lacks a field the result type requires, ends the call in a failure that
\* is none of invalid request, unauthorized, not found and request failed, and
\* nothing is returned.
C8_MalformedResponse ==
    Done /\ Is2xx(answer.status_code)
         /\ answer.body \in MissingFieldBodies(last.op) \cup {NoDataBody, NotJsonBody}
    =>  /\ ret.kind = "raise"
        /\ ret \notin {InvalidRequest, Unauthorized, NotFound}
        /\ ret # RequestFailed(answer.status_code)

\* C9: every track_order call hands its own GET request to the transport, and
\* what it gives its caller is the transport's answer to that request, never
\* something kept from an earlier call.
C9_TrackOrderRefetches ==
    Done /\ last.op = "track_order" =>
        /\ Len(calls) = ncalls
        /\ LastRequest = [method |-> "GET",
                          url |-> base_url \o "/orders/" \o last.args.order_id,
                          headers |-> LastRequest.headers]
        /\ Is2xx(answer.status_code) /\ "doc" \in DOMAIN answer.body
           => ret = [kind |-> "return", value |-> answer.body.doc]
        /\ answer.status_code >= 400 => ret.kind = "raise"

\* cancel_order and then track_order of the same order: the second call sends
\* its GET and reports the status the server answers with.
C9_Witness ==
    /\ Done
    /\ last.op = "track_order"
    /\ Len(calls) = 2
    /\ calls[1].method = "DELETE"
    /\ calls[2].method = "GET"
    /\ calls[1].url = calls[2].url
    /\ ret.kind = "return"
    /\ "data" \in DOMAIN ret.value
    /\ "status" \in DOMAIN ret.value.data
    /\ ret.value.data.status = "Cancelled"

\* C10: a method called with a design id that no earlier create_design call
\* returned still sends its request with that id, and it fails only when the
\* transport's answer makes it fail: 404 gives not found, and a 2xx answer
\* with a JSON body is returned.
C10_NoLocalExistenceCheck ==
    Done /\ last.op \in DesignMutations /\ last.args.design_id \notin created =>
        /\ Len(calls) = ncalls
        /\ LastRequest.json.designId = last.args.design_id
        /\ answer.status_code = 404 => ret = NotFound
        /\ ret.kind = "raise" =>
              answer.status_code >= 400 \/ "doc" \notin DOMAIN answer.body
        /\ Is2xx(answer.status_code) /\ "doc" \in DOMAIN answer.body
           => ret.kind = "return"

\* create_design returned design 123; place_order for design 999 is sent and
\* fails with the server's 404.
C10_Witness ==
    /\ Done
    /\ created = {"123"}
    /\ last.op = "place_order"
    /\ last.args.design_id = "999"
    /\ Len(calls) = 2
    /\ LastRequest.json.designId = "999"
    /\ answer.status_code = 404
    /\ ret = NotFound

\* C11: upload_image sends its argument as a multipart form request with the
\* single file field `image`, and without a JSON body.
C11_MultipartUpload ==
    last.op = "upload_image" =>
        /\ "files" \in DOMAIN LastRequest
        /\ DOMAIN LastRequest.files = {"image"}
        /\ LastRequest.files.image = last.args.image
        /\ "json" \notin DOMAIN LastRequest
        /\ content_type(LastRequest) = "multipart/form-data"

C11_Witness ==
    /\ last.op = "upload_image"
    /\ LastRequest.method = "POST"
    /\ LastRequest.files = [image |-> "/path/to/image.png"]
    /\ content_type(LastRequest) = "multipart/form-data"

\* C12: on a 2xx answer, the result of create_design has a field design_url
\* equal to the `timestamp` field of `data`, and the result of
\* get_design_details has a field design_url equal to the `creationTimestamp`
\* field of `data`.
C12_DesignUrl ==
    Done /\ Is2xx(answer.status_code) /\ answer.body \in WellFormedBodies(last.op)
         /\ last.op \in {"create_design", "get_design_details"}
    =>  /\ ret.kind = "return"
        /\ "design_url" \in DOMAIN ret.value
        /\ last.op = "create_design" =>
              ret.value.design_url = answer.body.doc.data.timestamp
        /\ last.op = "get_design_details" =>
              ret.value.design_url = answer.body.doc.data.creationTimestamp

\* The methods whose request has no body.
BodylessMethods == {"get_design_details", "track_order", "cancel_order"}

\* C13: get_design_details, track_order and cancel_order send a request with
\* no body; cancel_order of order X issues DELETE <base>/orders/X with no
\* body, and a 200 answer whose `data` has orderId X yields a result whose
\* order id is X.
C13_CancelOrder ==
    /\ last.op \in BodylessMethods =>
          /\ "json" \notin DOMAIN LastRequest
          /\ "files" \notin DOMAIN LastRequest
    /\ last.op = "cancel_order" =>
          LastRequest = [method |-> "DELETE",
                         url |-> base_url \o "/orders/" \o last.args.order_id,
                         headers |-> LastRequest.headers]
    /\ Done /\ last.op = "cancel_order" /\ answer.status_code = 200
            /\ answer.body \in WellFormedBodies("cancel_order")
            /\ answer.body.doc.data.orderId = last.args.order_id
       =>  /\ ret.kind = "return"
           /\ "order_id" \in DOMAIN ret.value
           /\ ret.value.order_id = last.args.order_id

\* C14: concurrent calls on one client do not interact: in every
\* interleaving, the request each call hands to the transport and the outcome
\* it gives its caller are those of the same call made alone with the same
\* answer, and the transport receives each call's request exactly once.
C14_NoInteraction ==
    /\ Len(calls) = Cardinality({t \in Threads : th[t].pc # "idle"})
    /\ \A t \in Threads :
          /\ th[t].pc # "idle" =>
                /\ th[t].request = MethodRequest(th[t].op, th[t].args)
                /\ \E i \in DOMAIN calls : calls[i] = th[t].request
          /\ th[t].pc = "done" => th[t].ret = handle_response(th[t].answer)

\* t2 sent its request first and is still holding a 401 answer when t1, which
\* sent second, has already returned the document of its 200 answer.
C14_Witness ==
    /\ th["t1"].pc = "done"
    /\ th["t2"].pc = "received"
    /\ calls = << th["t2"].request, th["t1"].request >>
    /\ th["t1"].op = "track_order"
    /\ th["t2"].op = "cancel_order"
    /\ th["t1"].answer.status_code = 200
    /\ th["t2"].answer.status_code = 401
    /\ th["t1"].ret = [kind |-> "return", value |-> th["t1"].answer.body.doc]

\* C15: the client's configuration never changes: through every call, whether
\* it returns or fails, base_url and api_key keep the values the constructor
\* gave them.
C15_ConfigImmutable == [][base_url' = base_url /\ api_key' = api_key]_vars

\* Two calls made, the second failed with the generic failure, and the second
\* client still has its own base address and key.
C15_Witness ==
    /\ Done
    /\ ncalls = 2
    /\ last.op = "create_design"
    /\ answer.status_code = 403
    /\ ret.kind = "raise"
    /\ base_url = "http://localhost:8000/v1"
    /\ api_key = "k2"

====
